---------------------------- MODULE Spec2Model ----------------------------
(***************************************************************************)
(* IoT health monitoring: the three programs of the repository.            *)
(*   src/app.py                 flat-file dashboard (load_csv + refresh)   *)
(*   src/final one/*.py         DB-backed dashboard (SQLite)               *)
(*   src/analyze_iot_health.py  standalone analysis script                 *)
(*                                                                         *)
(* Numbers are fixed-point with one decimal digit: the value 1205 stands   *)
(* for 120.5 (bpm, % or degrees C).  A cell of a data frame is a record    *)
(*   [k, v, s]:  k the kind of Python object, v its number, s its text.    *)
(***************************************************************************)
EXTENDS Integers, Sequences, FiniteSets, TLC

VARIABLES
    reading,      \* classifier harness: the (hr, spo2, temp) handed to compute_status
    cfg,          \* classifier harness: the ThresholdConfig
    result,       \* classifier harness: what each compute_status returned
    file,         \* dashboard: the CSV the script run reads (uploaded or default)
    thr,          \* dashboard: the sidebar's thr_hr, thr_spo2, thr_temp
    loaded,       \* dashboard: what load_csv gave for file (st.cache_data keeps it)
    dash,         \* dashboard: the run's df with Status, its alerts, or its error
    s_file,       \* script: the CSV at DATA_PATH
    s_out,        \* script: main's df, the alerts it saved, the exception ending it
    patients,     \* DB: table patients, id -> name
    thresholds,   \* DB: table thresholds, patient_id -> (hr_high, spo2_low, temp_high)
    observations, \* DB: table observations, in rowid order
    alerts_tbl,   \* DB: table alerts, in rowid order
    view,         \* DB-backed app: what the last script run showed
    last_upsert,  \* history: patient_id -> the values of the last upsert_patient_thresholds
    mail          \* DB-backed app: the SMTP server's mailbox and send_email's last result

classify_vars == <<reading, cfg, result>>
dash_vars == <<file, thr, loaded, dash>>
script_vars == <<s_file, s_out>>
db_vars == <<patients, thresholds, observations, alerts_tbl, view, last_upsert, mail>>
vars == <<reading, cfg, result, file, thr, loaded, dash, s_file, s_out,
          patients, thresholds, observations, alerts_tbl, view, last_upsert, mail>>

---------------------------------------------------------------------------
(* Cells *)

Cell(k, v, s) == [k |-> k, v |-> v, s |-> s]
Num(n)     == Cell("num", n, "")       \* int / float
NaN        == Cell("nan", 0, "")       \* float('nan'): an empty CSV cell
NoneVal    == Cell("none", 0, "")      \* Python None
Str(s)     == Cell("str", 0, s)        \* a string float() cannot parse
NumStr(n)  == Cell("numstr", n, "")    \* a string float() parses, e.g. "85"
DateStr(t) == Cell("datestr", t, "")   \* a string pd.to_datetime parses to instant t
Ts(t)      == Cell("ts", t, "")        \* pandas Timestamp
NaT        == Cell("nat", 0, "")       \* pandas NaT

(* Python float(x): raises for None (TypeError) and for a non-numeric      *)
(* string (ValueError); otherwise a float, possibly nan.                   *)
float_raises(x) == x.k \notin {"num", "nan", "numstr"}
float_isnan(x)  == x.k = "nan"
(* IEEE comparisons: every comparison with nan is False. *)
float_gt(x, t)  == ~float_isnan(x) /\ x.v > t
float_lt(x, t)  == ~float_isnan(x) /\ x.v < t

---------------------------------------------------------------------------
(* Statuses and thresholds *)

NORMAL  == "Normal"
HIGH_HR == "High Heart Rate Alert"
LOW_O2  == "Low Oxygen Alert"
FEVER   == "Fever Alert"
EXC     == "Exception"     \* an exception leaving the try block
STATUSES == {NORMAL, HIGH_HR, LOW_O2, FEVER}

DEFAULT_HR_HIGH   == 1200
DEFAULT_SPO2_LOW  == 900
DEFAULT_TEMP_HIGH == 380
defaults == [hr_high |-> DEFAULT_HR_HIGH, spo2_low |-> DEFAULT_SPO2_LOW,
             temp_high |-> DEFAULT_TEMP_HIGH]

(* The body of the try block of compute_status: the rules in order, each   *)
(* float() evaluated only when control reaches it.                         *)
status_rules(hr, spo2, temp, thr_hr, thr_spo2, thr_temp) ==
    IF float_raises(hr) THEN EXC
    ELSE IF float_gt(hr, thr_hr) THEN HIGH_HR
    ELSE IF float_raises(spo2) THEN EXC
    ELSE IF float_lt(spo2, thr_spo2) THEN LOW_O2
    ELSE IF float_raises(temp) THEN EXC
    ELSE IF float_gt(temp, thr_temp) THEN FEVER
    ELSE NORMAL

(* Faulty variants of compute_status: non-strict comparisons under one   *)
(* guard; no except clause.                                                *)
compute_status_nonstrict(hr, spo2, temp, thr_hr, thr_spo2, thr_temp) ==
    IF float_raises(hr) \/ float_raises(spo2) \/ float_raises(temp) THEN NORMAL
    ELSE IF ~float_isnan(hr) /\ hr.v >= thr_hr THEN HIGH_HR
    ELSE IF ~float_isnan(spo2) /\ spo2.v <= thr_spo2 THEN LOW_O2
    ELSE IF ~float_isnan(temp) /\ temp.v >= thr_temp THEN FEVER
    ELSE NORMAL
compute_status_no_except(hr, spo2, temp, thr_hr, thr_spo2, thr_temp) ==
    status_rules(hr, spo2, temp, thr_hr, thr_spo2, thr_temp)

(* src/app.py: try the rules, any exception gives "Normal". *)
compute_status(hr, spo2, temp, thr_hr, thr_spo2, thr_temp) ==
    LET r == status_rules(hr, spo2, temp, thr_hr, thr_spo2, thr_temp)
    IN  IF r = EXC THEN NORMAL ELSE r

(* src/final one/utils.py: the same text as the dashboard's. *)
utils_compute_status(hr, spo2, temp, thr_hr, thr_spo2, thr_temp) ==
    LET r == status_rules(hr, spo2, temp, thr_hr, thr_spo2, thr_temp)
    IN  IF r = EXC THEN NORMAL ELSE r

(* src/analyze_iot_health.py: the thresholds are the literals 120, 90, 38. *)
analyze_compute_status(hr, spo2, temp) ==
    LET r == status_rules(hr, spo2, temp, 1200, 900, 380)
    IN  IF r = EXC THEN NORMAL ELSE r


---------------------------------------------------------------------------
(* Data frames: column labels and rows of cells, a row's cells in the      *)
(* order of the labels.  The labels "SpO_2 (%)" and "Temp (degC)" stand    *)
(* for the source's labels with SUBSCRIPT TWO and DEGREE SIGN, which       *)
(* str.lower() leaves alone.                                               *)

TIME   == "Time"
HR     == "HR (bpm)"
SPO2   == "SpO_2 (%)"
TEMP   == "Temp (degC)"
STATUS == "Status"
REQUIRED_COLS == <<TIME, HR, SPO2, TEMP>>

Frame(cols, rows) == [cols |-> cols, rows |-> rows]
NO_FRAME == Frame(<<>>, <<>>)
NOT_RUN  == [raised |-> "not run", missing |-> <<>>, df |-> NO_FRAME, alerts |-> <<>>]

Range(f) == {f[i] : i \in DOMAIN f}
has_col(cols, c) == c \in Range(cols)
col_index(cols, c) == CHOOSE i \in DOMAIN cols : cols[i] = c /\ \A j \in 1..(i-1) : cols[j] # c
get(df, row, c) == row[col_index(df.cols, c)]

(* df[c] = values: replaces the column when the label exists, appends it   *)
(* as the last column otherwise.                                           *)
set_col(df, c, values) ==
    IF has_col(df.cols, c)
    THEN Frame(df.cols,
               [r \in DOMAIN df.rows |->
                   [df.rows[r] EXCEPT ![col_index(df.cols, c)] = values[r]]])
    ELSE Frame(Append(df.cols, c),
               [r \in DOMAIN df.rows |-> Append(df.rows[r], values[r])])

(* df[c]: the column as a sequence, one value per row. *)
col(df, c) == [r \in DOMAIN df.rows |-> get(df, df.rows[r], c)]

(* rows[mask]: boolean indexing, the rows whose mask value is True, in order. *)
select(rows, mask) ==
    LET F[i \in 0..Len(rows)] ==
          IF i = 0 THEN <<>>
          ELSE IF mask[i] THEN Append(F[i-1], rows[i]) ELSE F[i-1]
    IN  F[Len(rows)]

(* pd.read_csv on the cells of a CSV file: a column holding some text that *)
(* is no number comes out with dtype object, its numbers left as the       *)
(* strings they are in the file; an empty cell is nan either way.          *)
read_csv(f) ==
    Frame(f.cols,
          [r \in DOMAIN f.rows |->
              [c \in DOMAIN f.rows[r] |->
                  IF /\ f.rows[r][c].k = "num"
                     /\ \E q \in DOMAIN f.rows : f.rows[q][c].k \in {"str", "datestr"}
                  THEN NumStr(f.rows[r][c].v)
                  ELSE f.rows[r][c]]])

(* str.strip().lower() on the labels the model uses. *)
strip_lower(h) ==
    CASE h = "Time"          -> "time"
      [] h = "TIME"          -> "time"
      [] h = " time "        -> "time"
      [] h = "Timestamp"     -> "timestamp"
      [] h = "HR (bpm)"      -> "hr (bpm)"
      [] h = " hr (bpm) "    -> "hr (bpm)"
      [] h = "HR"            -> "hr"
      [] h = " hr"           -> "hr"
      [] h = "Heart Rate"    -> "heart rate"
      [] h = "Heart_Rate"    -> "heart_rate"
      [] h = "SpO_2 (%)"     -> "spo_2 (%)"
      [] h = "SPO_2 (%)"     -> "spo_2 (%)"
      [] h = "SpO2"          -> "spo2"
      [] h = "spO2"          -> "spo2"
      [] h = "spO2 (%)"      -> "spo2 (%)"
      [] h = "SpO (%)"       -> "spo (%)"
      [] h = "Oxygen "       -> "oxygen"
      [] h = "Temp (degC)"   -> "temp (degc)"
      [] h = "Temp (C)"      -> "temp (c)"
      [] h = "Temp"          -> "temp"
      [] h = "Temperature"   -> "temperature"
      [] h = "Status"        -> "status"
      [] OTHER               -> h

(* COLUMN_ALIASES, a dict: its items come in the order written. *)
COLUMN_ALIASES == <<
    [target |-> TIME, aliases |-> <<"time", "timestamp", "date_time", "datetime">>],
    [target |-> HR,   aliases |-> <<"hr", "heart_rate", "heart rate", "hr (bpm)",
                                    "heartrate", "heart_rate_bpm">>],
    [target |-> SPO2, aliases |-> <<"spo2", "spO2", "spO2 (%)", "spo (%)",
                                    "spo2_percent", "oxygen", "SpO (%)">>],
    [target |-> TEMP, aliases |-> <<"temp", "temperature", "temp (c)", "temperature_c",
                                    "temp_c", "body_temp", "Temp (C)">> ] >>

(* lower_cols = {c.strip().lower(): c for c in df.columns}: of two labels   *)
(* with the same key the later one stays.                                  *)
in_lower_cols(cols, key) == \E i \in DOMAIN cols : strip_lower(cols[i]) = key
lower_cols(cols, key) ==
    LET i == CHOOSE i \in DOMAIN cols :
                 /\ strip_lower(cols[i]) = key
                 /\ \A j \in DOMAIN cols : strip_lower(cols[j]) = key => j <= i
    IN  cols[i]

(* Faulty variant: the last matching alias wins, not the first. *)
last_match_index(cols, names) ==
    IF \E n \in DOMAIN names : in_lower_cols(cols, strip_lower(names[n]))
    THEN CHOOSE n \in DOMAIN names :
             /\ in_lower_cols(cols, strip_lower(names[n]))
             /\ \A m \in DOMAIN names : m > n => ~in_lower_cols(cols, strip_lower(names[m]))
    ELSE 0

(* The inner loop: the first a of [target] + aliases whose key is in       *)
(* lower_cols; 0 when there is none.                                       *)
first_match_index(cols, names) ==
    IF \E n \in DOMAIN names : in_lower_cols(cols, strip_lower(names[n]))
    THEN CHOOSE n \in DOMAIN names :
             /\ in_lower_cols(cols, strip_lower(names[n]))
             /\ \A m \in 1..(n-1) : ~in_lower_cols(cols, strip_lower(names[m]))
    ELSE 0

(* rename_map after the outer loop has handled the first t items: a        *)
(* function from old labels to targets, a later assignment to the same key *)
(* replacing the earlier one.                                              *)
rename_map(cols, t) ==
    LET M[k \in 0..t] ==
          IF k = 0 THEN << >>
          ELSE LET item  == COLUMN_ALIASES[k]
                   names == <<item.target>> \o item.aliases
                   n     == first_match_index(cols, names)
               IN  IF has_col(cols, item.target) \/ n = 0
                   THEN M[k-1]
                   ELSE LET old == lower_cols(cols, strip_lower(names[n]))
                        IN  [c \in (DOMAIN M[k-1]) \cup {old} |->
                                IF c = old THEN item.target ELSE M[k-1][c]]
    IN  M[t]

(* df.rename(columns=rename_map): the labels of the frame's columns. *)
normalize_columns(cols) ==
    LET m == rename_map(cols, Len(COLUMN_ALIASES))
    IN  [i \in DOMAIN cols |-> IF cols[i] \in DOMAIN m THEN m[cols[i]] ELSE cols[i]]

(* Faulty variant: the missing list stops at the first missing column. *)
missing_cols_first(cols) ==
    LET all == select(REQUIRED_COLS,
                      [i \in DOMAIN REQUIRED_COLS |-> ~has_col(cols, REQUIRED_COLS[i])])
    IN  IF all = <<>> THEN <<>> ELSE <<all[1]>>

(* missing = [c for c in REQUIRED_COLS if c not in df.columns] *)
missing_cols(cols) ==
    select(REQUIRED_COLS, [i \in DOMAIN REQUIRED_COLS |-> ~has_col(cols, REQUIRED_COLS[i])])

---------------------------------------------------------------------------
(* src/app.py: load_csv *)

(* pd.to_datetime(errors="coerce") on one cell. *)
to_datetime(x) ==
    CASE x.k = "datestr" -> Ts(x.v)
      [] x.k = "ts"      -> x
      [] OTHER           -> NaT

(* pd.to_numeric(errors="coerce") on one cell. *)
to_numeric(x) ==
    CASE x.k = "num"    -> x
      [] x.k = "numstr" -> Num(x.v)
      [] OTHER          -> NaN

(* Faulty variant: a value out of range becomes nan instead of the bound. *)
clip_to_nan(x, lower, upper) ==
    IF x.k # "num" THEN x
    ELSE IF x.v < lower \/ x.v > upper THEN NaN
    ELSE x

(* Faulty variant: clip without the lower bound. *)
clip_upper_only(x, lower, upper) ==
    IF x.k # "num" THEN x
    ELSE IF x.v > upper THEN Num(upper)
    ELSE x

(* Series.clip(lower, upper) on one cell: nan stays nan. *)
clip(x, lower, upper) ==
    IF x.k # "num" THEN x
    ELSE IF x.v < lower THEN Num(lower)
    ELSE IF x.v > upper THEN Num(upper)
    ELSE x

HR_MIN   == 300
HR_MAX   == 2200
SPO2_MIN == 500
SPO2_MAX == 1000
TEMP_MIN == 330
TEMP_MAX == 430

Perms(n) == {p \in [1..n -> 1..n] : \A i, j \in 1..n : i # j => p[i] # p[j]}
is_sorted(df, rows) ==
    \A i \in 1..(Len(rows) - 1) :
        get(df, rows[i], TIME).v <= get(df, rows[i+1], TIME).v

(* The stable sort by Time: repeatedly the first row of the least Time. *)
RECURSIVE stable_sort_rows(_, _)
stable_sort_rows(df, rows) ==
    IF rows = <<>> THEN <<>>
    ELSE LET i == CHOOSE i \in DOMAIN rows :
                    /\ \A j \in DOMAIN rows :
                          get(df, rows[i], TIME).v <= get(df, rows[j], TIME).v
                    /\ \A j \in 1..(i-1) :
                          get(df, rows[j], TIME).v > get(df, rows[i], TIME).v
         IN  <<rows[i]>> \o
             stable_sort_rows(df, [k \in 1..(Len(rows)-1) |->
                                      IF k < i THEN rows[k] ELSE rows[k+1]])

distinct_times(df) ==
    \A i, j \in DOMAIN df.rows :
        i # j => get(df, df.rows[i], TIME).v # get(df, df.rows[j], TIME).v

(* df.sort_values("Time"): pandas' default kind is "quicksort", which is   *)
(* not a stable sort, so rows with equal Time come out in any order: every *)
(* ascending arrangement of the rows, the one there is when no two rows    *)
(* have the same Time.                                                     *)
sort_values(df) ==
    IF distinct_times(df)
    THEN {Frame(df.cols, stable_sort_rows(df, df.rows))}
    ELSE {Frame(df.cols, [i \in DOMAIN df.rows |-> df.rows[p[i]]]) :
             p \in {q \in Perms(Len(df.rows)) :
                       is_sorted(df, [i \in DOMAIN df.rows |-> df.rows[q[i]]])}}

(* Time parsed, rows whose Time is NaT dropped (load_csv, before the sort). *)
parse_and_drop(df) ==
    LET parsed == set_col(df, TIME,
                      [r \in DOMAIN df.rows |-> to_datetime(col(df, TIME)[r])])
    IN  Frame(parsed.cols,
              select(parsed.rows,
                     [r \in DOMAIN parsed.rows |-> col(parsed, TIME)[r].k # "nat"]))

(* The three vitals coerced to numbers and clipped (load_csv, after the sort). *)
coerce_and_clip(df) ==
    LET d1 == set_col(df, HR, [r \in DOMAIN df.rows |->
                  clip(to_numeric(col(df, HR)[r]), HR_MIN, HR_MAX)])
        d2 == set_col(d1, SPO2, [r \in DOMAIN df.rows |->
                  clip(to_numeric(col(d1, SPO2)[r]), SPO2_MIN, SPO2_MAX)])
    IN  set_col(d2, TEMP, [r \in DOMAIN df.rows |->
                  clip(to_numeric(col(d2, TEMP)[r]), TEMP_MIN, TEMP_MAX)])

(* What load_csv does after the validation, to a frame with the required   *)
(* columns: the set of frames it may return.                               *)
sanitize(df) ==
    {coerce_and_clip(d) : d \in sort_values(parse_and_drop(df))}

(* load_csv(f): the set of its possible outcomes, a ValueError naming the  *)
(* missing columns or a sanitized frame.                                   *)
load_csv(f) ==
    LET df      == read_csv(f)
        cols    == normalize_columns(df.cols)
        missing == missing_cols(cols)
    IN  IF missing # <<>>
        THEN {[raised |-> "ValueError", missing |-> missing, df |-> NO_FRAME,
               alerts |-> <<>>]}
        ELSE {[raised |-> "", missing |-> <<>>, df |-> d, alerts |-> <<>>] :
                 d \in sanitize(Frame(cols, df.rows))}

(* The status refresh of the script run and the alerts frame.  On a frame  *)
(* without rows DataFrame.apply(axis=1) returns a frame, not a Series, and *)
(* assigning it to df["Status"] raises in some pandas versions.            *)
status_refresh(df, t) ==
    set_col(df, STATUS,
        [r \in DOMAIN df.rows |->
            Str(compute_status(get(df, df.rows[r], HR), get(df, df.rows[r], SPO2),
                               get(df, df.rows[r], TEMP),
                               t.hr_high, t.spo2_low, t.temp_high))])

non_normal(df) ==
    select(df.rows, [r \in DOMAIN df.rows |-> col(df, STATUS)[r] # Str(NORMAL)])

(* HR anomaly detection: hr.rolling(win, min_periods=win), the window of   *)
(* index i being the last win values up to i, of which the nan ones do not *)
(* count as observations.                                                  *)
win == 12
min_periods == win

window(i) == (IF i > win THEN i - win + 1 ELSE 1) .. i
observed(hr, i) == {j \in window(i) : hr[j].k = "num"}
nobs(hr, i) == Cardinality(observed(hr, i))

(* Sums over the window's observations: of the values (sq = FALSE) and of  *)
(* their squares (sq = TRUE).                                              *)
roll_total(hr, i, sq) ==
    LET lo == IF i > win THEN i - win + 1 ELSE 1
        F[j \in (lo - 1)..i] ==
          IF j = lo - 1 THEN 0
          ELSE F[j-1] + (IF hr[j].k # "num" THEN 0
                         ELSE IF sq THEN hr[j].v * hr[j].v ELSE hr[j].v)
    IN  F[i]

(* Faulty variant: statistics from the first observation on. *)
roll_defined_partial(hr, i) == nobs(hr, i) >= 1

(* mean() and std() are numbers from min_periods observations on, nan before. *)
roll_defined(hr, i) == nobs(hr, i) >= min_periods

(* np.abs(z) > 3 at index i, in exact arithmetic.  With n observations of  *)
(* sum S and sum of squares Q, mean = S/n and std^2 = (nQ - S^2)/(n(n-1)), *)
(* so z^2 > 9 is (n-1)(n x - S)^2 > 9n (nQ - S^2); the two sides are        *)
(* compared by quotient and remainder, which keeps every number below      *)
(* 2^31.  z is nan, and the comparison False, when the statistics are nan, *)
(* when x is nan, when n = 1 (std is nan) and when std = 0: then x is the  *)
(* mean and z = 0/0.                                                       *)
z_gt_3(hr, i) ==
    LET n  == nobs(hr, i)
        S  == roll_total(hr, i, FALSE)
        Q  == roll_total(hr, i, TRUE)
        a  == n * hr[i].v - S
        b  == n * Q - S * S
        A  == n - 1
        B  == 9 * n
        q  == (a * a) \div B
        r  == (a * a) % B
        p  == b \div A
        u  == b % A
    IN  /\ roll_defined(hr, i)
        /\ hr[i].k = "num"
        /\ n >= 2
        /\ b > 0
        /\ (q > p \/ (q = p /\ A * r > B * u))

(* Faulty variant: a heart rate above the alert threshold counts as an     *)
(* anomaly too.                                                            *)
hr_anomaly_merged(df) ==
    [i \in DOMAIN df.rows |->
        z_gt_3(col(df, HR), i) \/ col(df, STATUS)[i] = Str(HIGH_HR)]

(* anomaly, one flag for each row of df. *)
hr_anomaly(df) ==
    LET hr == col(df, HR)
    IN  [i \in DOMAIN df.rows |-> z_gt_3(hr, i)]

(* One run of the script after load_csv: status refresh, alerts, anomaly. *)
script_run(l, t) ==
    IF l.raised # ""
    THEN {[raised |-> l.raised, missing |-> l.missing, df |-> l.df, alerts |-> <<>>,
           anomaly |-> <<>>]}
    ELSE LET d == status_refresh(l.df, t)
             ok == [raised |-> "", missing |-> <<>>, df |-> d, alerts |-> non_normal(d),
                    anomaly |-> hr_anomaly(d)]
         IN  IF l.df.rows = <<>>
             THEN {ok, [raised |-> "ValueError", missing |-> <<>>, df |-> l.df,
                        alerts |-> <<>>, anomaly |-> <<>>]}
             ELSE {ok}

---------------------------------------------------------------------------
(* src/final one/db.py: the SQLite tables and the functions on them.       *)

(* No st.success message of a save on the page. *)
NO_NOTICE == [count |-> 0, alerts |-> 0, shown |-> FALSE]

NO_VIEW == [pid |-> "", w |-> defaults, raised |-> "not run",
            df_db |-> NO_FRAME, alerts_df |-> <<>>, notice |-> NO_NOTICE]

(* src/final one/alerts.py: send_email.  What the SMTP conversation comes  *)
(* to is the environment's choice: a secret is missing (KeyError), the     *)
(* connection, the login or send_message raises, the server accepts the    *)
(* message but answers QUIT with another code than 221 (SMTP.__exit__      *)
(* raises SMTPResponseException), or all goes well.                        *)
SmtpOutcomes == {"no secret", "connect failed", "login failed", "send failed",
                 "quit failed", "sent"}

(* Faulty variant: no except clause, the exception leaves send_email. *)
send_email_no_except(outcome) ==
    [raised    |-> IF outcome # "sent" THEN "Exception" ELSE "",
     ok        |-> IF outcome = "sent" THEN "True" ELSE "False",
     msg       |-> IF outcome = "sent" THEN "Email sent." ELSE "",
     delivered |-> outcome \in {"quit failed", "sent"}]

(* Faulty variant: True is returned whatever happened. *)
send_email_always_true(outcome) ==
    [raised    |-> "",
     ok        |-> "True",
     msg       |-> "Email sent.",
     delivered |-> outcome \in {"quit failed", "sent"}]

(* send_email: (True, "Email sent.") when the try block ends, (False,      *)
(* "Email failed: ...") for any exception in it; delivered tells whether   *)
(* the server accepted the message.                                        *)
send_email(outcome) ==
    [raised    |-> "",
     ok        |-> IF outcome = "sent" THEN "True" ELSE "False",
     msg       |-> IF outcome = "sent" THEN "Email sent." ELSE "Email failed",
     delivered |-> outcome \in {"quit failed", "sent"}]

(* No message accepted by the server, send_email not yet called. *)
NO_MAIL == [sent |-> 0, ok |-> "not run", msg |-> "", raised |-> ""]

(* The tables after init_db, and no script run made yet. *)
DbIdle ==
    /\ patients = << >>
    /\ thresholds = << >>
    /\ observations = <<>>
    /\ alerts_tbl = <<>>
    /\ view = NO_VIEW
    /\ last_upsert = << >>
    /\ mail = NO_MAIL

get_patient_thresholds(thresholds_t, patient_id) ==
    IF patient_id = "" THEN defaults
    ELSE IF patient_id \notin DOMAIN thresholds_t THEN defaults
    ELSE thresholds_t[patient_id]

(* Faulty variant: a stored row is left as it is (ON CONFLICT DO NOTHING). *)
upsert_insert_only(thresholds_t, patient_id, hr_high, spo2_low, temp_high) ==
    [p \in (DOMAIN thresholds_t) \cup {patient_id} |->
        IF p \in DOMAIN thresholds_t THEN thresholds_t[p]
        ELSE [hr_high |-> hr_high, spo2_low |-> spo2_low, temp_high |-> temp_high]]

(* INSERT ... ON CONFLICT(patient_id) DO UPDATE *)
upsert_patient_thresholds(thresholds_t, patient_id, hr_high, spo2_low, temp_high) ==
    [p \in (DOMAIN thresholds_t) \cup {patient_id} |->
        IF p = patient_id
        THEN [hr_high |-> hr_high, spo2_low |-> spo2_low, temp_high |-> temp_high]
        ELSE thresholds_t[p]]

(* Python int(x): raises for nan, None and a string that is no integer     *)
(* literal; truncates a float toward zero.                                 *)
int_raises(x) ==
    \/ x.k \in {"nan", "none", "str", "nat", "ts", "datestr"}
    \/ x.k = "numstr" /\ x.v % 10 # 0
int_of(x) == Num((x.v \div 10) * 10)
float_of(x) == IF x.k = "nan" THEN NaN ELSE Num(x.v)

(* str(t) of a Timestamp or NaT, str(status) of a Status cell. *)
str_of(x) ==
    CASE x.k = "ts"  -> DateStr(x.v)
      [] x.k = "nat" -> Str("NaT")
      [] OTHER       -> x

(* Whether building the rows of save_dataset_to_db raises: int(hr),         *)
(* int(spo2) or float(temp) of some row does.                              *)
conversion_raises(df) ==
    \E r \in DOMAIN df.rows :
        \/ int_raises(col(df, HR)[r]) \/ int_raises(col(df, SPO2)[r])
        \/ float_raises(col(df, TEMP)[r])

(* The rows save_dataset_to_db builds. *)
observation_rows(patient_id, df) ==
         [r \in DOMAIN df.rows |->
            [patient_id |-> patient_id,
             time   |-> str_of(col(df, TIME)[r]),
             hr     |-> int_of(col(df, HR)[r]),
             spo2   |-> int_of(col(df, SPO2)[r]),
             temp   |-> float_of(col(df, TEMP)[r]),
             status |-> col(df, STATUS)[r].s]]

(* INSERT OR IGNORE INTO patients *)
insert_or_ignore(patients_t, patient_id, patient_name) ==
    IF patient_id \in DOMAIN patients_t THEN patients_t
    ELSE [p \in (DOMAIN patients_t) \cup {patient_id} |->
            IF p = patient_id THEN patient_name ELSE patients_t[p]]

(* Faulty variant: no rollback, the patient row inserted before the       *)
(* conversion failed stays.                                                *)
save_dataset_no_rollback(patients_t, observations_t, patient_id, patient_name, df) ==
    IF conversion_raises(df)
    THEN [raised |-> "ValueError",
          patients |-> insert_or_ignore(patients_t, patient_id, patient_name),
          observations |-> observations_t]
    ELSE [raised |-> "",
          patients |-> insert_or_ignore(patients_t, patient_id, patient_name),
          observations |-> observations_t \o observation_rows(patient_id, df)]

(* save_dataset_to_db: the connection's context manager commits when the   *)
(* block ends and rolls back when it raises.                               *)
save_dataset_to_db(patients_t, observations_t, patient_id, patient_name, df) ==
    LET rows == observation_rows(patient_id, df)
    IN  IF conversion_raises(df)
        THEN [raised |-> "ValueError", patients |-> patients_t,
              observations |-> observations_t]
        ELSE [raised |-> "",
              patients |-> insert_or_ignore(patients_t, patient_id, patient_name),
              observations |-> observations_t \o rows]

(* ORDER BY time compares the stored text: dates in one format order as    *)
(* their instants and "NaT" comes after every date.                        *)
time_le(a, b) ==
    \/ b.k # "datestr"
    \/ a.k = "datestr" /\ a.v <= b.v

(* load_observations: the patient's rows ordered by time, rows of equal    *)
(* time in whatever order SQLite yields them; Time parsed again.           *)
load_observations(observations_t, patient_id) ==
    LET mine == select(observations_t,
                       [i \in DOMAIN observations_t |->
                           observations_t[i].patient_id = patient_id])
        n    == Len(mine)
    IN  {Frame(<<TIME, HR, SPO2, TEMP, STATUS>>,
               [i \in 1..n |-> <<to_datetime(mine[p[i]].time), mine[p[i]].hr,
                                 mine[p[i]].spo2, mine[p[i]].temp,
                                 Str(mine[p[i]].status)>>]) :
            p \in {q \in Perms(n) :
                      \A i \in 1..(n-1) : time_le(mine[q[i]].time, mine[q[i+1]].time)}}

(* Faulty variant: only heart-rate alerts are recorded. *)
alert_rows_hr_only(patient_id, df, row) ==
    IF get(df, row, STATUS).s = HIGH_HR
    THEN <<[patient_id |-> patient_id, time |-> str_of(get(df, row, TIME)),
            kind |-> "HR_HIGH", value |-> float_of(get(df, row, HR)), status |-> "new"]>>
    ELSE <<>>

(* record_alerts: one row per alerting reading, by its Status. *)
alert_rows(patient_id, df, row) ==
    LET st == get(df, row, STATUS).s
        t  == str_of(get(df, row, TIME))
        R(kind, x) == [patient_id |-> patient_id, time |-> t, kind |-> kind,
                       value |-> float_of(x), status |-> "new"]
    IN  (IF st = HIGH_HR THEN <<R("HR_HIGH", get(df, row, HR))>> ELSE <<>>)
        \o (IF st = LOW_O2 THEN <<R("SPO2_LOW", get(df, row, SPO2))>> ELSE <<>>)
        \o (IF st = FEVER THEN <<R("TEMP_HIGH", get(df, row, TEMP))>> ELSE <<>>)

record_alerts(alerts_t, patient_id, df, alert_rows_df) ==
    LET F[i \in 0..Len(alert_rows_df)] ==
          IF i = 0 THEN <<>>
          ELSE F[i-1] \o alert_rows(patient_id, df, alert_rows_df[i])
    IN  alerts_t \o F[Len(alert_rows_df)]

(* src/final one/utils.py: validate_csv_columns, the columns it reports. *)
validate_csv_columns(cols) ==
    select(REQUIRED_COLS, [i \in DOMAIN REQUIRED_COLS |-> ~has_col(cols, REQUIRED_COLS[i])])

---------------------------------------------------------------------------
(* Classifier harness: compute_status as a pure function of its inputs.   *)

HrCells   == {Num(1190), Num(1200), Num(1210), Num(1300), NaN, NoneVal, Str("abc"), NumStr(1250),
              Num(200), Num(2500)}
Spo2Cells == {Num(890), Num(900), Num(910), Num(850), NaN, NoneVal, Str("abc"), NumStr(850),
              Num(400), Num(1050)}
TempCells == {Num(379), Num(380), Num(381), Num(390), NaN, NoneVal, Str("abc"), NumStr(390),
              Num(320), Num(450)}
Configs   == {defaults,
              [hr_high |-> 1300, spo2_low |-> 850, temp_high |-> 390],
              [hr_high |-> 1190, spo2_low |-> 910, temp_high |-> 379]}

(* Thresholds at the clipping bounds, for compute_status as a function of  *)
(* any thresholds.                                                         *)
EdgeConfigs == {[hr_high |-> 300,  spo2_low |-> 1000, temp_high |-> 330],
                [hr_high |-> 2190, spo2_low |-> 510,  temp_high |-> 429],
                [hr_high |-> 2200, spo2_low |-> 500,  temp_high |-> 430]}

UNSET == [app |-> "unset", utils |-> "unset", script |-> "unset", sanitized |-> "unset"]

ClassifyInit ==
    /\ reading \in [hr : HrCells, spo2 : Spo2Cells, temp : TempCells]
    /\ cfg \in Configs \cup EdgeConfigs
    /\ result = UNSET
    /\ file = NO_FRAME /\ thr = defaults /\ loaded = NOT_RUN /\ dash = NOT_RUN
    /\ s_file = NO_FRAME /\ s_out = NOT_RUN
    /\ DbIdle

Classify ==
    /\ result = UNSET
    /\ result' =
         [app    |-> compute_status(reading.hr, reading.spo2, reading.temp,
                                    cfg.hr_high, cfg.spo2_low, cfg.temp_high),
          utils  |-> utils_compute_status(reading.hr, reading.spo2, reading.temp,
                                    cfg.hr_high, cfg.spo2_low, cfg.temp_high),
          script |-> analyze_compute_status(reading.hr, reading.spo2, reading.temp),
          sanitized |->
              compute_status(clip(to_numeric(reading.hr), HR_MIN, HR_MAX),
                             clip(to_numeric(reading.spo2), SPO2_MIN, SPO2_MAX),
                             clip(to_numeric(reading.temp), TEMP_MIN, TEMP_MAX),
                             cfg.hr_high, cfg.spo2_low, cfg.temp_high)]
    /\ UNCHANGED <<reading, cfg>>
    /\ UNCHANGED <<dash_vars, script_vars, db_vars>>

ClassifyNext == Classify
SpecClassify == ClassifyInit /\ [][ClassifyNext]_vars

---------------------------------------------------------------------------
(* src/app.py: the dashboard.  Streamlit runs the whole script again on    *)
(* every widget change; load_csv is cached per file, the status refresh    *)
(* and the alerts are recomputed by every run.                             *)

MaxRows   == 2     \* rows of an input CSV
MaxLabels == 2     \* heart-rate-like labels in a CSV header

SeqsUpTo(S, n) == UNION {[1..k -> S] : k \in 0..n}
distinct(q) == \A i, j \in DOMAIN q : i # j => q[i] # q[j]

(* Rows under the canonical header: Time, HR, SpO2, Temp. *)
DashRows ==
    { <<DateStr(2), Num(800),    Num(970), Num(368)>>,
      <<DateStr(1), Num(1250),   Num(850), Num(390)>>,
      <<DateStr(1), Num(800),    Num(970), Num(368)>>,
      <<Str("n/a"), Num(1250),   Num(970), Num(368)>>,
      <<NaN,        Num(800),    Num(970), Num(390)>>,
      <<DateStr(2), Str("abc"),  Num(850), Num(368)>>,
      <<DateStr(1), Num(2500),   Num(400), Num(450)>> }
DashRowsWithStatus ==
    {Append(r, Str(st)) : r \in DashRows, st \in {NORMAL, FEVER}}

RowFiles ==
    {Frame(REQUIRED_COLS, rows) : rows \in SeqsUpTo(DashRows, MaxRows)}
    \cup {Frame(Append(REQUIRED_COLS, STATUS), rows) :
             rows \in SeqsUpTo(DashRowsWithStatus, MaxRows)}

(* Headers: some labels for each field, one row under them. *)
HrLabels  == {"HR (bpm)", " hr (bpm) ", "hr", "HR", "Heart Rate", "heart_rate", "pulse"}
TimeLists == {<<>>, <<"Time">>, <<"Timestamp">>, <<"datetime", "TIME">>}
Spo2Lists == {<<>>, <<"SpO_2 (%)">>, <<"Oxygen ", "spO2">>, <<"SpO2", "spo2">>}
TempLists == {<<>>, <<"Temp (degC)">>, <<"temp_c", "Temperature">>}
HeaderFiles ==
    {Frame(t \o h \o o \o c,
           << [i \in 1..Len(t) |-> DateStr(i)] \o [i \in 1..Len(h) |-> Num(1200 + 10 * i)]
              \o [i \in 1..Len(o) |-> Num(900 + 10 * i)]
              \o [i \in 1..Len(c) |-> Num(370 + 10 * i)] >>) :
        t \in TimeLists, h \in {q \in SeqsUpTo(HrLabels, MaxLabels) : distinct(q)},
        o \in Spo2Lists, c \in TempLists} \ {Frame(<<>>, << <<>> >>)}

DashFiles == RowFiles \cup HeaderFiles
ReuploadFiles ==
    { Frame(REQUIRED_COLS, << <<DateStr(1), Num(1250), Num(970), Num(368)>> >>),
      Frame(<<"Timestamp", "pulse">>, << <<DateStr(1), Num(800)>> >>),
      Frame(REQUIRED_COLS, << <<Str("n/a"), Num(800), Num(970), Num(368)>> >>) }

DashInit ==
    /\ file \in DashFiles
    /\ thr = defaults
    /\ loaded \in load_csv(file)
    /\ dash \in script_run(loaded, thr)
    /\ reading = [hr |-> NaN, spo2 |-> NaN, temp |-> NaN]
    /\ cfg = defaults /\ result = UNSET
    /\ s_file = NO_FRAME /\ s_out = NOT_RUN
    /\ DbIdle

(* A file is uploaded: the run loads it and refreshes the status. *)
Upload(f) ==
    /\ f # file
    /\ file' = f
    /\ loaded' \in load_csv(f)
    /\ dash' \in script_run(loaded', thr)
    /\ UNCHANGED <<thr>>
    /\ UNCHANGED <<classify_vars, script_vars, db_vars>>

(* A threshold input changes: the run takes the cached frame of load_csv   *)
(* and refreshes the status.                                               *)
SetThresholds(t) ==
    /\ t # thr
    /\ thr' = t
    /\ dash' \in script_run(loaded, t)
    /\ UNCHANGED <<file, loaded>>
    /\ UNCHANGED <<classify_vars, script_vars, db_vars>>

DashNext ==
    \/ \E f \in ReuploadFiles : Upload(f)
    \/ \E t \in Configs : SetThresholds(t)
SpecDashboard == DashInit /\ [][DashNext]_vars

(* The dashboard on longer recordings: one reading per instant, a run of   *)
(* equal heart rates and then some other values; SpO2 and temperature are  *)
(* unremarkable.                                                           *)
MaxTail == 2     \* readings after the run of equal heart rates

RunLengths == {10, 11, 12}
RunValues  == {Num(700), Num(1250)}
TailValues == {Num(700), Num(1000), Num(1250), Num(2500), NaN}
AnomalyFiles ==
    {Frame(REQUIRED_COLS,
           [i \in 1..(n + Len(tail)) |->
               <<DateStr(i), IF i <= n THEN a ELSE tail[i - n], Num(970), Num(368)>>]) :
        n \in RunLengths, a \in RunValues, tail \in SeqsUpTo(TailValues, MaxTail)}

AnomalyInit ==
    /\ file \in AnomalyFiles
    /\ thr = defaults
    /\ loaded \in load_csv(file)
    /\ dash \in script_run(loaded, thr)
    /\ reading = [hr |-> NaN, spo2 |-> NaN, temp |-> NaN]
    /\ cfg = defaults /\ result = UNSET
    /\ s_file = NO_FRAME /\ s_out = NOT_RUN
    /\ DbIdle

SpecAnomaly == AnomalyInit /\ [][DashNext]_vars

classified == result # UNSET
is_num(x)  == x.k = "num"
all_numeric == is_num(reading.hr) /\ is_num(reading.spo2) /\ is_num(reading.temp)

(* The classification the specification prescribes for numeric vitals. *)
first_match(r, c) ==
    IF r.hr.v > c.hr_high THEN HIGH_HR
    ELSE IF r.spo2.v < c.spo2_low THEN LOW_O2
    ELSE IF r.temp.v > c.temp_high THEN FEVER
    ELSE NORMAL

\* C1: for three numeric vitals compute_status is the strict first-match rule
\* (heart rate, then SpO2, then temperature, else Normal): the dashboard's and
\* the DB-backed app's for every ThresholdConfig, the script's for the defaults.
C1_FirstMatch ==
    (classified /\ all_numeric) =>
        /\ result.app = first_match(reading, cfg)
        /\ result.utils = first_match(reading, cfg)
        /\ (cfg = defaults => result.script = first_match(reading, cfg))

\* A reading at the heart-rate threshold exactly that also violates the SpO2
\* and the temperature rule: it is classified Low Oxygen, by all three.
C1_Witness ==
    /\ classified /\ all_numeric /\ cfg = defaults
    /\ reading.hr.v = cfg.hr_high
    /\ reading.spo2.v < cfg.spo2_low /\ reading.temp.v > cfg.temp_high
    /\ result.app = LOW_O2 /\ result.utils = LOW_O2 /\ result.script = LOW_O2

\* C3: compute_status is total: whatever the three inputs are (numbers,
\* nan, None, strings), each implementation returns one of the four statuses;
\* no exception leaves it.
C3_Total ==
    classified =>
        /\ result.app \in STATUSES
        /\ result.utils \in STATUSES
        /\ result.script \in STATUSES

\* A reading whose heart rate makes float() raise: the result is a status.
C3_Witness ==
    /\ classified
    /\ float_raises(reading.hr) /\ float_raises(reading.temp)
    /\ result.app = NORMAL /\ result.utils = NORMAL /\ result.script = NORMAL

is_missing(x) == x.k \in {"nan", "none", "str"}   \* missing or unparseable

\* C2: a missing or unparseable vital fails only its own rule: with the
\* heart rate missing or unparseable and a numeric SpO2 below spo2_low the
\* status is Low Oxygen; with the heart rate and/or SpO2 missing or
\* unparseable (the numeric one not alerting) and a numeric temperature above
\* temp_high the status is Fever.
C2_FallThrough ==
    classified =>
        /\ (is_missing(reading.hr) /\ is_num(reading.spo2)
              /\ reading.spo2.v < cfg.spo2_low)
           => (result.app = LOW_O2 /\ result.utils = LOW_O2)
        /\ ( /\ is_missing(reading.hr) \/ is_missing(reading.spo2)
             /\ is_missing(reading.hr) \/ (is_num(reading.hr) /\ reading.hr.v <= cfg.hr_high)
             /\ is_missing(reading.spo2) \/ (is_num(reading.spo2) /\ reading.spo2.v >= cfg.spo2_low)
             /\ is_num(reading.temp) /\ reading.temp.v > cfg.temp_high )
           => (result.app = FEVER /\ result.utils = FEVER)

(* Thresholds for which a clipped value is on the same side as the raw one. *)
clip_safe(c) ==
    /\ 300 <= c.hr_high /\ c.hr_high < 2200
    /\ 500 < c.spo2_low /\ c.spo2_low <= 1000
    /\ 330 <= c.temp_high /\ c.temp_high < 430

\* C17: clipping does not change the classification: for thresholds with
\* 30 <= hr_high < 220, 50 < spo2_low <= 100 and 33 <= temp_high < 43 and a
\* reading of three numbers, compute_status of the reading as load_csv clips
\* it is compute_status of the raw reading.
C17_ClippingKeepsStatus ==
    (classified /\ all_numeric /\ clip_safe(cfg)) => result.sanitized = result.app

\* A heart rate below 30 and an SpO2 below 50 with spo2_low = 51: Low
\* Oxygen raw and clipped.
C17_Witness ==
    /\ classified /\ all_numeric /\ clip_safe(cfg) /\ cfg.spo2_low = 510
    /\ reading.hr.v < HR_MIN /\ reading.spo2.v < SPO2_MIN /\ reading.temp.v > TEMP_MAX
    /\ result.sanitized = LOW_O2 /\ result.app = LOW_O2

---------------------------------------------------------------------------
(* src/final one/app.py: one run of the script.  Streamlit runs it from    *)
(* the top on every interaction, with the widgets' current values: the     *)
(* selected patient, the three threshold inputs, the uploaded file, and at *)
(* most one pressed button.  A run that changes only a widget changes no   *)
(* table, so each run below takes the widgets' values as its inputs.       *)

(* Lines 61-76: read, validate, parse Time, classify with the inputs'      *)
(* thresholds; no row is dropped and no vital is coerced.  On a frame      *)
(* without rows the assignment of apply's result may raise (see the        *)
(* dashboard's status refresh).                                            *)
upload_results(up, w) ==
    LET df == read_csv(up)
        parsed == set_col(df, TIME, [r \in DOMAIN df.rows |-> to_datetime(col(df, TIME)[r])])
        d == set_col(parsed, STATUS,
                 [r \in DOMAIN up.rows |->
                     Str(utils_compute_status(col(parsed, HR)[r], col(parsed, SPO2)[r],
                                              col(parsed, TEMP)[r],
                                              w.hr_high, w.spo2_low, w.temp_high))])
    IN  IF validate_csv_columns(up.cols) # <<>>
        THEN {[raised |-> "ValueError", df |-> NO_FRAME]}
        ELSE IF up.rows = <<>>
        THEN {[raised |-> "", df |-> d], [raised |-> "ValueError", df |-> NO_FRAME]}
        ELSE {[raised |-> "", df |-> d]}

(* A run ended by an exception shows the traceback and nothing else. *)
failed_view(sel, w) ==
    [pid |-> "", w |-> defaults, raised |-> "ValueError", df_db |-> NO_FRAME,
     alerts_df |-> <<>>, notice |-> NO_NOTICE]

(* Lines 93-124: the stored observations of the selected patient and the   *)
(* alerts among them, by the stored Status.                                *)
display(observations_t, sel, w) ==
    IF sel = "" THEN {[pid |-> "", w |-> w, raised |-> "", df_db |-> NO_FRAME,
                       alerts_df |-> <<>>, notice |-> NO_NOTICE]}
    ELSE {[pid |-> sel, w |-> w, raised |-> "", df_db |-> d, alerts_df |-> non_normal(d),
           notice |-> NO_NOTICE] :
             d \in load_observations(observations_t, sel)}

(* The selectbox: a stored patient, or nothing while there is none. *)
selectable(sel) ==
    IF patients = << >> THEN sel = "" ELSE sel \in DOMAIN patients

MaxObs == 2     \* rows the observations table may hold

PIDs    == {"P001", "P002"}
NewPIDs == PIDs \cup {""}     \* the text input may be left empty
Names   == {"Demo Patient", "Ward 3"}
Widgets == {defaults, [hr_high |-> 1300, spo2_low |-> 850, temp_high |-> 390]}
DbSingles ==
    { <<DateStr(1), Num(1250),  Num(970), Num(368)>>,
      <<DateStr(2), Str("abc"), Num(850), Num(390)>> }
(* The uploads: files of one or two readings, one with a Status column of *)
(* its own and one with an alias in its header.                            *)
DbPairs ==
    { << <<DateStr(1), Num(1250),  Num(970), Num(368)>>,
         <<DateStr(1), Num(800),   Num(970), Num(368)>> >>,
      << <<DateStr(2), Num(800),   Num(970), Num(385)>>,
         <<DateStr(1), Num(1250),  Num(970), Num(368)>> >>,
      << <<Str("n/a"), Num(800),   Num(850), Num(368)>>,
         <<DateStr(2), Num(800),   Num(970), Num(385)>> >>,
      << <<DateStr(1), Num(1250),  Num(970), Num(368)>>,
         <<DateStr(2), NaN,        Num(850), Num(390)>> >> }
DbFiles ==
    {Frame(REQUIRED_COLS, <<r>>) : r \in DbSingles}
    \cup {Frame(REQUIRED_COLS, rows) : rows \in DbPairs}
    \cup {Frame(Append(REQUIRED_COLS, STATUS),
                << <<DateStr(1), Num(1250), Num(970), Num(368), Str(NORMAL)>> >>),
          Frame(<<TIME, "hr", SPO2, TEMP>>,
                << <<DateStr(1), Num(1250), Num(970), Num(368)>> >>)}

(* Uploads of the runs that save no dataset: none (a file that passes the  *)
(* validation changes nothing such a run shows) and one that fails it.     *)
ViewUploads ==
    {NO_FRAME,
     Frame(<<TIME, "hr", SPO2, TEMP>>, << <<DateStr(1), Num(1250), Num(970), Num(368)>> >>)}

DbInit ==
    /\ DbIdle
    /\ reading = [hr |-> NaN, spo2 |-> NaN, temp |-> NaN]
    /\ cfg = defaults /\ result = UNSET
    /\ file = NO_FRAME /\ thr = defaults /\ loaded = NOT_RUN /\ dash = NOT_RUN
    /\ s_file = NO_FRAME /\ s_out = NOT_RUN

(* A run with no button pressed. *)
ViewRun(sel, w, up) ==
    /\ selectable(sel)
    /\ \E u \in (IF up = NO_FRAME THEN {[raised |-> "", df |-> NO_FRAME]}
                 ELSE upload_results(up, w)) :
          IF u.raised # "" THEN view' = failed_view(sel, w)
          ELSE view' \in display(observations, sel, w)
    /\ UNCHANGED <<patients, thresholds, observations, alerts_tbl, last_upsert, mail>>
    /\ UNCHANGED <<classify_vars, dash_vars, script_vars>>

(* "Save thresholds for patient" pressed: the button is there when a       *)
(* patient is selected and an input differs from the stored thresholds.    *)
SaveThresholdsRun(sel, w, up) ==
    /\ selectable(sel) /\ sel # ""
    /\ w # get_patient_thresholds(thresholds, sel)
    /\ thresholds' = upsert_patient_thresholds(thresholds, sel,
                                               w.hr_high, w.spo2_low, w.temp_high)
    /\ last_upsert' = [p \in (DOMAIN last_upsert) \cup {sel} |->
                          IF p = sel THEN w ELSE last_upsert[p]]
    /\ \E u \in (IF up = NO_FRAME THEN {[raised |-> "", df |-> NO_FRAME]}
                 ELSE upload_results(up, w)) :
          IF u.raised # "" THEN view' = failed_view(sel, w)
          ELSE view' \in display(observations, sel, w)
    /\ UNCHANGED <<patients, observations, alerts_tbl, mail>>
    /\ UNCHANGED <<classify_vars, dash_vars, script_vars>>

(* "Save uploaded dataset to DB" pressed: save the classified upload, set  *)
(* the patient's thresholds to the inputs, record the alerts; then the     *)
(* selected patient's stored data is shown.  An exception ends the run.    *)
SaveDatasetRun(sel, w, up, new_pid, new_pname) ==
    /\ selectable(sel)
    /\ Len(observations) + Len(up.rows) <= MaxObs
    /\ \E u \in upload_results(up, w) :
          /\ u.raised = ""
          /\ LET saved == save_dataset_to_db(patients, observations, new_pid, new_pname, u.df)
             IN  IF saved.raised # ""
                 THEN /\ view' = failed_view(sel, w)
                      /\ patients' = saved.patients
                      /\ observations' = saved.observations
                      /\ UNCHANGED <<thresholds, alerts_tbl, last_upsert>>
                 ELSE /\ patients' = saved.patients
                      /\ observations' = saved.observations
                      /\ thresholds' = upsert_patient_thresholds(thresholds, new_pid,
                                           w.hr_high, w.spo2_low, w.temp_high)
                      /\ last_upsert' = [p \in (DOMAIN last_upsert) \cup {new_pid} |->
                                            IF p = new_pid THEN w ELSE last_upsert[p]]
                      /\ alerts_tbl' = record_alerts(alerts_tbl, new_pid, u.df,
                                                     non_normal(u.df))
                      /\ view' \in
                           {[v EXCEPT !.notice =
                                [count |-> Len(saved.observations) - Len(observations),
                                 alerts |-> Len(alerts_tbl') - Len(alerts_tbl),
                                 shown |-> TRUE]] :
                               v \in display(saved.observations, sel, w)}
    /\ UNCHANGED <<mail>>
    /\ UNCHANGED <<classify_vars, dash_vars, script_vars>>

MaxMail == 2     \* messages the SMTP server may accept

(* "Send Test Email" pressed with an address entered, in a run that gets   *)
(* as far as the button (no upload, or one that passes the validation):    *)
(* the button is there when the selected patient has stored observations.  *)
(* The tables are not written; the page shows the patient's data and the   *)
(* result message.                                                         *)
SendEmailRun(sel, w, outcome) ==
    /\ selectable(sel) /\ sel # ""
    /\ \E i \in DOMAIN observations : observations[i].patient_id = sel
    /\ mail.sent < MaxMail
    /\ LET r == send_email(outcome)
       IN  /\ mail' = [sent   |-> IF r.delivered THEN mail.sent + 1 ELSE mail.sent,
                       ok     |-> r.ok,
                       msg    |-> r.msg,
                       raised |-> r.raised]
           /\ IF r.raised # "" THEN view' = failed_view(sel, w)
              ELSE view' \in display(observations, sel, w)
    /\ UNCHANGED <<patients, thresholds, observations, alerts_tbl, last_upsert>>
    /\ UNCHANGED <<classify_vars, dash_vars, script_vars>>

DbNext ==
    \/ \E sel \in {p \in PIDs \cup {""} : selectable(p)}, w \in Widgets,
          up \in ViewUploads :
          ViewRun(sel, w, up)
    \/ \E sel \in {p \in PIDs : selectable(p)}, w \in Widgets, up \in ViewUploads :
          SaveThresholdsRun(sel, w, up)
    \/ \E up \in {f \in DbFiles : Len(observations) + Len(f.rows) <= MaxObs} :
          \E sel \in {p \in PIDs \cup {""} : selectable(p)}, w \in Widgets,
             new_pid \in NewPIDs, new_pname \in Names :
             SaveDatasetRun(sel, w, up, new_pid, new_pname)
SpecDb == DbInit /\ [][DbNext]_vars

(* The DB-backed app with the notification: datasets are saved for one     *)
(* patient, thresholds are changed and test emails are sent.               *)
NotifyFiles ==
    {Frame(REQUIRED_COLS, <<r>>) : r \in DbSingles}
    \cup {Frame(REQUIRED_COLS, rows) : rows \in DbPairs}

NotifyNext ==
    \/ \E up \in {f \in NotifyFiles : Len(observations) + Len(f.rows) <= MaxObs} :
          \E sel \in {p \in PIDs \cup {""} : selectable(p)}, w \in Widgets :
             SaveDatasetRun(sel, w, up, "P001", "Demo Patient")
    \/ \E sel \in {p \in PIDs : selectable(p)}, w \in Widgets :
          SaveThresholdsRun(sel, w, NO_FRAME)
    \/ \E sel \in {p \in PIDs : selectable(p)}, w \in Widgets, outcome \in SmtpOutcomes :
          SendEmailRun(sel, w, outcome)
SpecNotify == DbInit /\ [][NotifyNext]_vars

---------------------------------------------------------------------------
(* src/analyze_iot_health.py: main.  The header is checked as it stands    *)
(* (no aliases), Time is parsed and no row is dropped, and Status is       *)
(* computed only when the CSV has no Status column.  The alerts are saved  *)
(* before the plots; the temperature plot reads temp_alerts, which no      *)
(* statement assigns, so main ends with a NameError after the save.        *)

analyze_status(df) ==
    IF has_col(df.cols, STATUS) THEN df
    ELSE set_col(df, STATUS,
             [r \in DOMAIN df.rows |->
                 Str(analyze_compute_status(col(df, HR)[r], col(df, SPO2)[r],
                                            col(df, TEMP)[r]))])

analyze_main(f) ==
    LET df      == read_csv(f)
        missing == missing_cols(df.cols)
        parsed  == set_col(df, TIME, [r \in DOMAIN df.rows |-> to_datetime(col(df, TIME)[r])])
        d       == analyze_status(parsed)
        done    == [raised |-> "NameError", missing |-> <<>>, df |-> d,
                    alerts |-> non_normal(d)]
    IN  IF missing # <<>>
        THEN {[raised |-> "ValueError", missing |-> missing, df |-> NO_FRAME,
               alerts |-> <<>>]}
        ELSE IF f.rows = <<>> /\ ~has_col(f.cols, STATUS)
        THEN {done, [raised |-> "ValueError", missing |-> <<>>, df |-> parsed,
                     alerts |-> <<>>]}
        ELSE {done}

ScriptFiles ==
    RowFiles \cup
    {Frame(<<TIME, "hr", SPO2, TEMP>>, << <<DateStr(1), Num(1250), Num(970), Num(368)>> >>),
     Frame(<<TIME, HR>>, << <<DateStr(1), Num(1250)>> >>)}

ScriptInit ==
    /\ s_file \in ScriptFiles
    /\ s_out = NOT_RUN
    /\ reading = [hr |-> NaN, spo2 |-> NaN, temp |-> NaN]
    /\ cfg = defaults /\ result = UNSET
    /\ file = NO_FRAME /\ thr = defaults /\ loaded = NOT_RUN /\ dash = NOT_RUN
    /\ DbIdle

Main ==
    /\ s_out = NOT_RUN
    /\ s_out' \in analyze_main(s_file)
    /\ UNCHANGED <<s_file, classify_vars, dash_vars, db_vars>>

ScriptNext == Main
SpecScript == ScriptInit /\ [][ScriptNext]_vars

(* Claims about the status of ingested rows. *)

recomputed(df, r, t) ==
    Str(compute_status(col(df, HR)[r], col(df, SPO2)[r], col(df, TEMP)[r],
                       t.hr_high, t.spo2_low, t.temp_high))

\* C4: Status is never taken from the input: after the script has ingested a
\* CSV, with or without a Status column, the Status of every row is
\* compute_status of the row's vitals under the active (default) thresholds,
\* and the alerts it saves are the rows whose recomputed status is not Normal.
C4_StatusRecomputed ==
    (s_out.raised = "NameError") =>
        /\ \A r \in DOMAIN s_out.df.rows :
              col(s_out.df, STATUS)[r] = recomputed(s_out.df, r, defaults)
        /\ s_out.alerts =
              select(s_out.df.rows,
                     [r \in DOMAIN s_out.df.rows |->
                         recomputed(s_out.df, r, defaults) # Str(NORMAL)])

---------------------------------------------------------------------------
(* Claims about the dashboard's ingestion (SpecDashboard).                 *)

(* The names a canonical field answers to: its own and its aliases', each  *)
(* compared trimmed and in lower case.                                     *)
item_of(c) == CHOOSE k \in DOMAIN COLUMN_ALIASES : COLUMN_ALIASES[k].target = c
names_of(c) == <<c>> \o COLUMN_ALIASES[item_of(c)].aliases
answers(h, c, n) == strip_lower(h) = strip_lower(names_of(c)[n])
resolvable(cols, c) ==
    \E i \in DOMAIN cols : \E n \in DOMAIN names_of(c) : answers(cols[i], c, n)
unresolved(cols) == {c \in Range(REQUIRED_COLS) : ~resolvable(cols, c)}

renamed_to(cols, out, c) == {i \in DOMAIN cols : out[i] = c /\ cols[i] # c}

no_timestamp(f) ==
    LET df == Frame(normalize_columns(f.cols), read_csv(f).rows)
    IN  \A r \in DOMAIN df.rows : to_datetime(col(df, TIME)[r]).k = "nat"

\* C7: load_csv raises (EmptyDatasetError) when no row is left after the
\* rows with an unparseable timestamp are dropped.
C7_EmptyDatasetRaises ==
    (unresolved(file.cols) = {} /\ no_timestamp(file)) => loaded.raised # ""

\* C10: the frame load_csv returns is sorted ascending by Time and rows of
\* equal Time keep their input order: it is the stable sort of the kept rows.
C10_SortedStable ==
    loaded.raised = "" =>
        LET kept == parse_and_drop(Frame(normalize_columns(file.cols), read_csv(file).rows))
        IN  /\ is_sorted(loaded.df, loaded.df.rows)
            /\ loaded.df = coerce_and_clip(
                               Frame(kept.cols, stable_sort_rows(kept, kept.rows)))

(* The rows load_csv keeps, before the sort and the clipping. *)
kept_rows(f) == parse_and_drop(Frame(normalize_columns(f.cols), read_csv(f).rows))

raw_numeric(x) == x.k \in {"num", "numstr"}

(* out is what the sanitizer owes for the raw cell: within [lo, hi] and the *)
(* nearest value to raw there when raw is a number, missing otherwise.     *)
clamped_to(raw, out, lo, hi) ==
    IF raw_numeric(raw)
    THEN /\ out.k = "num" /\ lo <= out.v /\ out.v <= hi
         /\ (lo <= raw.v /\ raw.v <= hi) => out.v = raw.v
         /\ raw.v < lo => out.v = lo
         /\ raw.v > hi => out.v = hi
    ELSE out = NaN

\* C11: clipping invariant: the frame load_csv returns has one row for each
\* row kept after the timestamp filter (clipping removes none), and in each
\* a raw numeric heart rate, SpO2 or temperature lies in [30, 220], [50, 100]
\* or [33, 43]: unchanged when in range, the nearest bound otherwise; a
\* missing or unparseable value is missing.
C11_Clipping ==
    loaded.raised = "" =>
        LET kept == kept_rows(file)
            out  == loaded.df
        IN  /\ Len(out.rows) = Len(kept.rows)
            /\ \E p \in Perms(Len(kept.rows)) :
                  \A i \in DOMAIN out.rows :
                     /\ col(out, TIME)[i] = col(kept, TIME)[p[i]]
                     /\ clamped_to(col(kept, HR)[p[i]], col(out, HR)[i], 300, 2200)
                     /\ clamped_to(col(kept, SPO2)[p[i]], col(out, SPO2)[i], 500, 1000)
                     /\ clamped_to(col(kept, TEMP)[p[i]], col(out, TEMP)[i], 330, 430)

\* A file with a row above every range, a row below the heart-rate range and
\* an unparseable heart rate: loaded with 220 / 50 / 43, 30 and a missing value.
C11_Witness ==
    /\ loaded.raised = "" /\ Len(loaded.df.rows) = 2
    /\ \E i \in DOMAIN file.rows : file.rows[i][2] = Num(2500)
    /\ \E i \in DOMAIN file.rows : file.rows[i][2] = Str("abc")
    /\ \E i \in DOMAIN loaded.df.rows :
          /\ col(loaded.df, HR)[i] = Num(2200)
          /\ col(loaded.df, SPO2)[i] = Num(500)
          /\ col(loaded.df, TEMP)[i] = Num(430)
    /\ \E i \in DOMAIN loaded.df.rows : col(loaded.df, HR)[i] = NaN

---------------------------------------------------------------------------
(* Claims about the anomaly detector (SpecAnomaly).                        *)

(* The window of win values ending at index i exists and its values are    *)
(* numbers, all equal.                                                     *)
constant_window(hr, i) ==
    /\ i >= win
    /\ \A j \in (i - win + 1)..i : hr[j].k = "num" /\ hr[j].v = hr[i].v

\* C12: the anomaly detector flags no reading whose window statistics are
\* undefined: there is one flag per reading, the flag is false at each of the
\* first win - 1 readings whatever the values, and false at every reading
\* whose trailing window of win values is constant (zero standard deviation).
C12_NoFlagWhenUndefined ==
    dash.raised = "" =>
        LET hr == col(dash.df, HR)
        IN  /\ Len(dash.anomaly) = Len(dash.df.rows)
            /\ \A i \in DOMAIN dash.anomaly :
                  /\ i < win => ~dash.anomaly[i]
                  /\ constant_window(hr, i) => ~dash.anomaly[i]

\* Twelve equal heart rates and then an outlier: the twelfth reading has a
\* constant window and no flag, the eleventh differs from all before it and
\* has none, the thirteenth is flagged.
C12_Witness ==
    /\ dash.raised = "" /\ Len(dash.anomaly) = 13
    /\ constant_window(col(dash.df, HR), 12) /\ ~dash.anomaly[12]
    /\ dash.anomaly[13]

\* C13: the anomaly flags do not depend on the thresholds: a run of the
\* script on the same file with other threshold inputs gives the same flag
\* at every index.
C13_FlagsIgnoreThresholds ==
    [][file' = file => dash'.anomaly = dash.anomaly]_vars

\* Both combinations in one run under the default thresholds: a reading
\* with status Normal that is flagged and a reading with an alert status
\* that is not flagged.
C13_Witness ==
    /\ dash.raised = "" /\ thr = defaults
    /\ \E i \in DOMAIN dash.anomaly :
          dash.anomaly[i] /\ col(dash.df, STATUS)[i] = Str(NORMAL)
    /\ \E j \in DOMAIN dash.anomaly :
          ~dash.anomaly[j] /\ col(dash.df, STATUS)[j] = Str(HIGH_HR)

---------------------------------------------------------------------------
(* Claims about the DB-backed app (SpecDb).                                *)

\* C5: the status follows the thresholds: in every run that shows a patient
\* with the threshold inputs equal to the patient's stored thresholds, every
\* reading shown has the status compute_status gives its vitals under those
\* thresholds, and the alerts shown are the readings whose such status is not
\* Normal.
C5_StatusFollowsThresholds ==
    (view.raised = "" /\ view.pid # ""
       /\ view.w = get_patient_thresholds(thresholds, view.pid)) =>
        LET d == view.df_db
            now(r) == Str(utils_compute_status(col(d, HR)[r], col(d, SPO2)[r],
                              col(d, TEMP)[r],
                              view.w.hr_high, view.w.spo2_low, view.w.temp_high))
        IN  /\ \A r \in DOMAIN d.rows : col(d, STATUS)[r] = now(r)
            /\ view.alerts_df = select(d.rows, [r \in DOMAIN d.rows |-> now(r) # Str(NORMAL)])

\* C6: a row with an unparseable timestamp is dropped by the upload path
\* too: no stored observation and no recorded alert has an invalid time.
C6_InvalidTimestampDropped ==
    /\ \A i \in DOMAIN observations : observations[i].time.k = "datestr"
    /\ \A i \in DOMAIN alerts_tbl : alerts_tbl[i].time.k = "datestr"

kind_of(st) ==
    CASE st = HIGH_HR -> "HR_HIGH"
      [] st = LOW_O2  -> "SPO2_LOW"
      [] st = FEVER   -> "TEMP_HIGH"
      [] OTHER        -> "none"

count_alerts(p, kind) ==
    Cardinality({i \in DOMAIN alerts_tbl :
                    alerts_tbl[i].patient_id = p /\ alerts_tbl[i].kind = kind})
count_obs(p, st) ==
    Cardinality({i \in DOMAIN observations :
                    observations[i].patient_id = p /\ observations[i].status = st})

\* C14: alert-count consistency: the alerts recorded are as many as the
\* stored readings whose status is not Normal, for each patient and kind as
\* many as the readings with the corresponding status; and the number of
\* alerts a save reports is the number of non-Normal readings among those it
\* saved (none when no reading alerts).
C14_AlertCount ==
    /\ Len(alerts_tbl) =
          Cardinality({i \in DOMAIN observations : observations[i].status # NORMAL})
    /\ \A p \in NewPIDs : \A st \in {HIGH_HR, LOW_O2, FEVER} :
          count_alerts(p, kind_of(st)) = count_obs(p, st)
    /\ \A i \in DOMAIN alerts_tbl :
          alerts_tbl[i].kind \in {"HR_HIGH", "SPO2_LOW", "TEMP_HIGH"}
    /\ view.notice.shown =>
          /\ view.notice.count <= Len(observations)
          /\ view.notice.alerts =
                Cardinality({i \in DOMAIN observations :
                                /\ i > Len(observations) - view.notice.count
                                /\ observations[i].status # NORMAL})

\* A save of two readings of which one alerts: one alert recorded.
C14_Witness ==
    /\ view.notice.shown /\ view.notice.count = 2 /\ view.notice.alerts = 1
    /\ Len(observations) = 2 /\ Len(alerts_tbl) = 1
    /\ alerts_tbl[1].kind = "HR_HIGH"

\* C15: get_patient_thresholds gives the defaults for the empty patient id
\* and for a patient without a thresholds row, and otherwise the values of
\* the most recent upsert_patient_thresholds for that patient, whatever was
\* upserted for other patients.
C15_ThresholdsPerPatient ==
    /\ get_patient_thresholds(thresholds, "") = defaults
    /\ \A p \in PIDs :
          get_patient_thresholds(thresholds, p) =
              IF p \in DOMAIN last_upsert THEN last_upsert[p] ELSE defaults

\* Thresholds other than the defaults were upserted for the empty id, one
\* patient's thresholds were upserted back to other values than another's,
\* and both patients have a row.
C15_Witness ==
    /\ "" \in DOMAIN last_upsert /\ last_upsert[""] # defaults
    /\ "P001" \in DOMAIN last_upsert
    /\ get_patient_thresholds(thresholds, "P001") # defaults
    /\ "P002" \notin DOMAIN last_upsert

new_indices(old, new) == (Len(old) + 1)..Len(new)

\* C18: every alert a run records carries a number that strictly violates
\* the threshold the run classified with: above hr_high for HR_HIGH, below
\* spo2_low for SPO2_LOW, above temp_high for TEMP_HIGH; the value is not
\* missing, and it is the heart rate, SpO2 or temperature of a reading saved
\* by the same run with the same time and the corresponding status.
C18_AlertsViolateThreshold ==
    [][\A i \in new_indices(alerts_tbl, alerts_tbl') :
          LET a == alerts_tbl'[i]
              c == view'.w
          IN  /\ a.value.k = "num"
              /\ a.kind = "HR_HIGH"   => a.value.v > c.hr_high
              /\ a.kind = "SPO2_LOW"  => a.value.v < c.spo2_low
              /\ a.kind = "TEMP_HIGH" => a.value.v > c.temp_high
              /\ \E j \in new_indices(observations, observations') :
                    LET o == observations'[j]
                    IN  /\ o.patient_id = a.patient_id /\ o.time = a.time
                        /\ kind_of(o.status) = a.kind
                        /\ a.kind = "HR_HIGH"   => o.hr = int_of(a.value)
                        /\ a.kind = "SPO2_LOW"  => o.spo2 = int_of(a.value)
                        /\ a.kind = "TEMP_HIGH" => o.temp = a.value]_vars

\* A low-oxygen and a fever alert recorded under the default thresholds.
C18_Witness ==
    /\ Len(alerts_tbl) = 2
    /\ alerts_tbl[1].kind = "SPO2_LOW" /\ alerts_tbl[1].value = Num(850)
    /\ alerts_tbl[2].kind = "TEMP_HIGH" /\ alerts_tbl[2].value = Num(385)
    /\ view.w = defaults /\ view.notice.shown

is_prefix(a, b) == Len(a) <= Len(b) /\ \A i \in DOMAIN a : b[i] = a[i]

\* C19: save_dataset_to_db is all-or-nothing and append-only: a run that
\* ends in an exception stores no patient and no observation; a save appends
\* as many observations as it reports rows, all of one patient who then has
\* a patient row; no run changes or removes a stored observation or alert,
\* and no run changes the name of a stored patient.
C19_SaveAllOrNothing ==
    [][/\ is_prefix(observations, observations')
       /\ is_prefix(alerts_tbl, alerts_tbl')
       /\ \A p \in DOMAIN patients : p \in DOMAIN patients' /\ patients'[p] = patients[p]
       /\ view'.raised # "" => (patients' = patients /\ observations' = observations)
       /\ ~view'.notice.shown => (patients' = patients /\ observations' = observations)
       /\ view'.notice.shown =>
             /\ view'.notice.count >= 1
             /\ Len(observations') = Len(observations) + view'.notice.count
             /\ \E p \in DOMAIN patients' :
                   /\ DOMAIN patients' = (DOMAIN patients) \cup {p}
                   /\ \A j \in new_indices(observations, observations') :
                         observations'[j].patient_id = p]_vars

\* The same one-row dataset saved twice: two equal observations.
C19_Witness ==
    /\ Len(observations) = 2 /\ observations[1] = observations[2]
    /\ view.notice.shown /\ view.notice.count = 1
    /\ Cardinality(DOMAIN patients) = 1

---------------------------------------------------------------------------
(* Claims about the notification (SpecNotify).                             *)

\* C16: a notification failure is reported and not fatal: whenever
\* send_email has been called no exception left it and its result is True or
\* False; it is True only when the server accepted the message, and False
\* whenever the message was not accepted; and the call leaves the patients,
\* thresholds, observations and alerts stored as they were, the page still
\* showing the selected patient's stored data.
C16_NotificationNonFatal ==
    [][mail' # mail =>
          /\ mail'.raised = ""
          /\ mail'.ok \in {"True", "False"}
          /\ mail'.ok = "True" => mail'.sent = mail.sent + 1
          /\ mail'.sent = mail.sent => (mail'.ok = "False" /\ mail'.msg = "Email failed")
          /\ UNCHANGED <<patients, thresholds, observations, alerts_tbl>>
          /\ view'.raised = ""
          /\ view' \in display(observations, view'.pid, view'.w)]_vars

\* One message was sent, then a send failed: False is reported, the
\* patient's alerting observation is stored and shown as before.
C16_Witness ==
    /\ mail.sent = 1 /\ mail.ok = "False" /\ mail.msg = "Email failed"
    /\ Len(observations) >= 1 /\ Len(alerts_tbl) >= 1
    /\ view.raised = "" /\ view.df_db.rows # <<>>

=============================================================================
